---- MODULE Spec2Model ----
(***************************************************************************)
(* Envelope-encryption codec server: the KMS manager (current data key,    *)
(* decryption cache, RWMutex, KMS calls) and the /encode and /decode       *)
(* handlers that drive it, as concurrent request goroutines.               *)
(*                                                                         *)
(* Strings and byte slices are sequences of integers.  A byte is a small   *)
(* natural; a character of the base64 alphabet is 1000 + the byte it       *)
(* stands for; every other character is below 1000.  Plaintext key         *)
(* buffers live in a heap (mem) and are referred to by index, because the  *)
(* code hands out and zeroes them by reference.                            *)
(***************************************************************************)
EXTENDS Integers, Sequences, FiniteSets, TLC

\* ------------------------------------------------------------- bounds
NumProcs == 2   \* request goroutines served at once
MaxTime  == 4   \* the clock stops here
MaxBufs  == 5   \* plaintext buffers KMS hands out in one run
MaxBatch == 2   \* payloads per request in the batch specification
KeyLen   == 2   \* bytes of an AES key in the model (32 in the code)
MaxData  == 2   \* bytes of plaintext given to the two AES-GCM functions alone

Procs == 1..NumProcs

\* ------------------------------------------------- configuration, KMS
keyRotationInterval == 1
cacheTTL == 1
NonceSize == 1
Colon == 58
WarnBefore == 1                        \* the 5 minutes of the expiry warning

keyID == <<97, Colon, 107>>          \* the master key ARN ("a:k")

\* The n-th data key KMS generates: its wrapped blob and its plaintext.
Blob(n) == <<100 + n>>
Plain(n) == [i \in 1..KeyLen |-> 10 * n + i]

\* ------------------------------------------------------------- base64
B64Encode(bytes) == [i \in 1..Len(bytes) |-> 1000 + bytes[i]]
B64Valid(s) == \A i \in 1..Len(s) : s[i] >= 1000
B64Decode(s) == [i \in 1..Len(s) |-> s[i] - 1000]

\* fmt.Sprintf("%s:%s", a, b)
SprintfColon(a, b) == a \o <<Colon>> \o b

\* ------------------------------------------------------ AES-256-GCM
\* gcm.Seal(nonce, nonce, data, nil): the nonce, then the data locked under
\* the key (symbolic: only the same key bytes open it).
Seal(key, nonce, data) == <<nonce>> \o key \o data

\* An encryption that returns the sealed data without the nonce in front.
EncryptWithDataKeyNoNonce(data, key, nonce) ==
    IF Len(key) # KeyLen
    THEN [err |-> "key must be 32 bytes", val |-> <<>>]
    ELSE [err |-> "", val |-> B64Encode(key \o data)]

EncryptWithDataKey(data, key, nonce) ==
    IF Len(key) # KeyLen
    THEN [err |-> "key must be 32 bytes", val |-> <<>>]
    ELSE [err |-> "", val |-> B64Encode(Seal(key, nonce, data))]

DecryptWithDataKey(encodedData, key) ==
    IF Len(key) # KeyLen
    THEN [err |-> "key must be 32 bytes", val |-> <<>>]
    ELSE IF ~B64Valid(encodedData)
    THEN [err |-> "base64 decode failed", val |-> <<>>]
    ELSE LET data == B64Decode(encodedData) IN
         IF Len(data) < NonceSize
         THEN [err |-> "ciphertext too short", val |-> <<>>]
         ELSE LET ciphertext == SubSeq(data, NonceSize + 1, Len(data)) IN
              IF Len(ciphertext) < KeyLen \/ SubSeq(ciphertext, 1, KeyLen) # key
              THEN [err |-> "message authentication failed", val |-> <<>>]
              ELSE [err |-> "", val |-> SubSeq(ciphertext, KeyLen + 1, Len(ciphertext))]

\* ------------------------------------------------------------ payloads
\* shared.PayloadData.  Metadata is a set of <<key, value>> pairs.
MetaHas(m, k) == \E e \in m : e[1] = k
MetaGet(m, k) == IF MetaHas(m, k) THEN (CHOOSE e \in m : e[1] = k)[2] ELSE ""
Encoding(v) == {<<"encoding", v>>}

PayloadData(meta, data, kid, edk, alg) ==
    [Metadata |-> meta, Data |-> data, KMSKeyID |-> kid,
     EncryptedDataKey |-> edk, Algorithm |-> alg]

\* ---------------------------------------------------------------- state
VARIABLES
    now,               \* time.Now()
    currentDataKey,    \* KMSManager.currentDataKey (*CurrentDataKey)
    decryptionCache,   \* KMSManager.decryptionCache
    mux,               \* KMSManager.mux: the goroutine holding Lock(), or 0
    mem,               \* heap of plaintext key buffers ([]byte backing arrays)
    kmsKeys,           \* data keys the KMS has generated so far
    pc,                \* per goroutine: where it stands
    op,                \* per goroutine: "encode", "decode", "rotate", "stats" or "none"
    req,               \* per goroutine: req.Payloads
    idx,               \* per goroutine: position of the range loop
    resp,              \* per goroutine: response.Payloads
    status,            \* per goroutine: HTTP status written (0: none yet)
    currentKey,        \* per goroutine: local currentKey of GetCurrentDataKey/handleEncode
    dataKey,           \* per goroutine: local dataKey of handleDecode (a buffer)
    result,            \* per goroutine: result of the KMS call
    zi,                \* per goroutine: index of the zeroing loop
    nGen,              \* per goroutine: GenerateDataKey calls issued by this request
    nDec,              \* per goroutine: Decrypt calls issued by this request
    kmsErr,            \* per goroutine: a KMS call of this request failed
    saw,               \* per goroutine: blob of the key line 77 found expired, or <<>>
    hadEntry,          \* per goroutine: DecryptDataKey was called with the blob's entry stored
    stale,             \* per goroutine: DecryptDataKey was called with the blob's entry past its TTL
    fromEnc,           \* per goroutine: the decode request holds handleEncode output
    swept,             \* CleanupCache has run at the present clock value
    abandoned,         \* per goroutine: the client of the request has gone away
    monitor            \* what the monitoring routine found at the present clock value

mgrVars == <<currentDataKey, decryptionCache, mux, mem, kmsKeys>>
reqVars == <<op, req, idx, resp, status, fromEnc>>
locVars == <<currentKey, dataKey, result, zi>>
cntVars == <<nGen, nDec, kmsErr, saw, hadEntry, stale>>
bgVars == <<swept, abandoned, monitor>>
vars == <<now, mgrVars, pc, reqVars, locVars, cntVars, bgVars>>

NilKey == [PlaintextKey |-> 0, EncryptedKey |-> <<>>, GeneratedAt |-> 0, ExpiresAt |-> 0]
NilResult == [Plaintext |-> 0, CiphertextBlob |-> <<>>]
Zeros == [i \in 1..KeyLen |-> 0]

\* time.Time.After / Before
After(t, u) == t > u
Before(t, u) == t < u


IsNil(k) == k.PlaintextKey = 0

\* ------------------------------------------------------------- requests
PlainData == <<5>>
Nonces == {7}

PlainJSON == PayloadData(Encoding("json/plain"), B64Encode(PlainData), <<>>, <<>>, "")

\* What handleEncode emits for PlainJSON while data key n is current.
EncryptedUnder(n) ==
    PayloadData(Encoding("binary/encrypted"),
                EncryptWithDataKey(PlainData, Plain(n), 7).val,
                keyID, B64Encode(Blob(n)), "AES-256-GCM")

EncodeRequests == {<<PlainJSON>>}

\* Decode requests of the concurrent specification: the output of an encode
\* request that has been answered, or what an earlier encode emitted under
\* one of the data keys that have been current so far.
CurrentKeyNumber == CHOOSE n \in 1..kmsKeys : currentDataKey.EncryptedKey = B64Encode(Blob(n))

DecodeRequests ==
    {<<EncryptedUnder(n)>> : n \in 1..CurrentKeyNumber}
    \cup {resp[q] : q \in {r \in Procs : /\ op[r] = "encode" /\ pc[r] = "idle"
                                         /\ status[r] = 200 /\ resp[r] # <<>>}}

\* ------------------------------------------------------------------ Init
\* The state NewKMSManager leaves: the first data key generated at time 0.
Init ==
    /\ now = 0
    /\ kmsKeys = 1
    /\ mem = <<Plain(1)>>
    /\ currentDataKey = [PlaintextKey |-> 1, EncryptedKey |-> B64Encode(Blob(1)),
                         GeneratedAt |-> 0, ExpiresAt |-> 0 + keyRotationInterval]
    /\ decryptionCache = [k \in {} |-> [Key |-> 0, ExpiresAt |-> 0]]
    /\ mux = 0
    /\ pc = [p \in Procs |-> "idle"]
    /\ op = [p \in Procs |-> "none"]
    /\ req = [p \in Procs |-> <<>>]
    /\ idx = [p \in Procs |-> 0]
    /\ resp = [p \in Procs |-> <<>>]
    /\ status = [p \in Procs |-> 0]
    /\ currentKey = [p \in Procs |-> NilKey]
    /\ dataKey = [p \in Procs |-> 0]
    /\ result = [p \in Procs |-> NilResult]
    /\ zi = [p \in Procs |-> 0]
    /\ nGen = [p \in Procs |-> 0]
    /\ nDec = [p \in Procs |-> 0]
    /\ kmsErr = [p \in Procs |-> FALSE]
    /\ saw = [p \in Procs |-> <<>>]
    /\ hadEntry = [p \in Procs |-> FALSE]
    /\ stale = [p \in Procs |-> FALSE]
    /\ fromEnc = [p \in Procs |-> FALSE]
    /\ swept = FALSE
    /\ abandoned = [p \in Procs |-> FALSE]
    /\ monitor = "none"

\* The clock advances.
Tick ==
    /\ now < MaxTime
    /\ now' = now + 1
    /\ swept' = FALSE
    /\ monitor' = "none"
    /\ UNCHANGED <<mgrVars, pc, reqVars, locVars, cntVars, abandoned>>

\* A request arrives at goroutine p.
Begin(p, kind, r, first, enc) ==
    /\ pc[p] = "idle"
    /\ UNCHANGED <<swept, monitor>>
    /\ abandoned' = [abandoned EXCEPT ![p] = FALSE]
    /\ pc' = [pc EXCEPT ![p] = first]
    /\ op' = [op EXCEPT ![p] = kind]
    /\ req' = [req EXCEPT ![p] = r]
    /\ idx' = [idx EXCEPT ![p] = 1]
    /\ resp' = [resp EXCEPT ![p] = <<>>]
    /\ status' = [status EXCEPT ![p] = 0]
    /\ fromEnc' = [fromEnc EXCEPT ![p] = enc]
    /\ nGen' = [nGen EXCEPT ![p] = 0]
    /\ nDec' = [nDec EXCEPT ![p] = 0]
    /\ kmsErr' = [kmsErr EXCEPT ![p] = FALSE]
    /\ saw' = [saw EXCEPT ![p] = <<>>]
    /\ hadEntry' = [hadEntry EXCEPT ![p] = FALSE]
    /\ stale' = [stale EXCEPT ![p] = FALSE]
    /\ UNCHANGED <<now, mgrVars, locVars>>

StartEncode(p, r) == Begin(p, "encode", r, "enc_loop", FALSE)
StartDecode(p, r, enc) == Begin(p, "decode", r, "dec_loop", enc)
StartRotate(p) == Begin(p, "rotate", <<>>, "rot_lock", FALSE)

\* The request is answered: http.Error(w, ..., code) discards the payloads
\* collected so far; a 200 carries response.Payloads.
Answer(p, code, payloads) ==
    /\ pc' = [pc EXCEPT ![p] = "idle"]
    /\ status' = [status EXCEPT ![p] = code]
    /\ resp' = [resp EXCEPT ![p] = payloads]
    /\ currentKey' = [currentKey EXCEPT ![p] = NilKey]
    /\ dataKey' = [dataKey EXCEPT ![p] = 0]
    /\ result' = [result EXCEPT ![p] = NilResult]
    /\ zi' = [zi EXCEPT ![p] = 0]
    /\ UNCHANGED <<op, req, idx, fromEnc>>


\* ------------------------------------------------ KMSManager: rotation
\* An expiry test that counts the instant of expiry as expired.
ExpiredFromExpiryOn(k) == IsNil(k) \/ ~Before(now, k.ExpiresAt)

\* The condition of lines 77 and 80: no key, or the key is past its expiry.
Expired(k) == IsNil(k) \/ After(now, k.ExpiresAt)

\* GetCurrentDataKey, lines 72-77 and 90: the read under RLock and the
\* optimistic check, which follows it at once.  RLock waits for a writer.
GetRead(p) ==
    /\ pc[p] = "get_read"
    /\ UNCHANGED bgVars
    /\ mux = 0
    /\ currentKey' = [currentKey EXCEPT ![p] = currentDataKey]
    /\ pc' = [pc EXCEPT ![p] = IF Expired(currentDataKey) THEN "get_lock"
                                 ELSE "enc_encrypt"]
    /\ saw' = [saw EXCEPT ![p] = IF Expired(currentDataKey)
                                   THEN currentDataKey.EncryptedKey ELSE <<>>]
    /\ UNCHANGED <<now, mgrVars, reqVars, dataKey, result, zi, nGen, nDec, kmsErr, hadEntry, stale>>

\* A double check that always asks for a rotation.
DoubleCheckSkipped == TRUE

\* The double check of line 80, made with the write lock held.
DoubleCheck == Expired(currentDataKey)

\* GetCurrentDataKey, lines 78-87: Lock, the double check, and either the
\* call of rotateDataKeyLocked (which issues GenerateDataKey with the lock
\* held) or the return of the key another caller installed.
GetLock(p) ==
    /\ pc[p] = "get_lock"
    /\ UNCHANGED bgVars
    /\ mux = 0
    /\ IF DoubleCheck
       THEN /\ mux' = p
            /\ pc' = [pc EXCEPT ![p] = "gen_call"]
            /\ nGen' = [nGen EXCEPT ![p] = @ + 1]
            /\ UNCHANGED currentKey
       ELSE /\ mux' = 0
            /\ pc' = [pc EXCEPT ![p] = "enc_encrypt"]
            /\ currentKey' = [currentKey EXCEPT ![p] = currentDataKey]
            /\ UNCHANGED nGen
    /\ UNCHANGED <<now, currentDataKey, decryptionCache, mem, kmsKeys, reqVars,
                   dataKey, result, zi, nDec, kmsErr, saw, hadEntry, stale>>

\* A rotateDataKey that does not wait for the lock.
RotLockNoWait(p) ==
    /\ pc[p] = "rot_lock"
    /\ UNCHANGED bgVars
    /\ mux' = p
    /\ pc' = [pc EXCEPT ![p] = "gen_call"]
    /\ nGen' = [nGen EXCEPT ![p] = @ + 1]
    /\ UNCHANGED <<now, currentDataKey, decryptionCache, mem, kmsKeys, reqVars,
                   locVars, nDec, kmsErr, saw, hadEntry, stale>>

\* rotateDataKey, lines 94-97: Lock, then rotateDataKeyLocked.
RotLock(p) ==
    /\ pc[p] = "rot_lock"
    /\ UNCHANGED bgVars
    /\ mux = 0
    /\ mux' = p
    /\ pc' = [pc EXCEPT ![p] = "gen_call"]
    /\ nGen' = [nGen EXCEPT ![p] = @ + 1]
    /\ UNCHANGED <<now, currentDataKey, decryptionCache, mem, kmsKeys, reqVars,
                   locVars, nDec, kmsErr, saw, hadEntry, stale>>

\* rotateDataKeyLocked, lines 114-117: GenerateDataKey answers with a fresh
\* plaintext buffer and its wrapped blob.
GenReturnOk(p) ==
    /\ pc[p] = "gen_call"
    /\ UNCHANGED bgVars
    /\ Len(mem) < MaxBufs
    /\ kmsKeys' = kmsKeys + 1
    /\ mem' = Append(mem, Plain(kmsKeys + 1))
    /\ result' = [result EXCEPT ![p] = [Plaintext |-> Len(mem) + 1,
                                         CiphertextBlob |-> Blob(kmsKeys + 1)]]
    /\ zi' = [zi EXCEPT ![p] = 1]
    /\ pc' = [pc EXCEPT ![p] = IF IsNil(currentDataKey) THEN "gen_install"
                                 ELSE "gen_zero"]
    /\ UNCHANGED <<now, currentDataKey, decryptionCache, mux, reqVars,
                   currentKey, dataKey, cntVars>>

\* An error path that has already wiped the old key when the call fails.
GenReturnErrAfterZeroing(p) ==
    /\ pc[p] = "gen_call"
    /\ UNCHANGED bgVars
    /\ mux' = 0
    /\ kmsErr' = [kmsErr EXCEPT ![p] = TRUE]
    /\ mem' = [mem EXCEPT ![currentDataKey.PlaintextKey] = Zeros]
    /\ Answer(p, 500, <<>>)
    /\ UNCHANGED <<now, currentDataKey, decryptionCache, kmsKeys, nGen, nDec, saw, hadEntry, stale>>

\* rotateDataKeyLocked, lines 115-117, and the callers' lines 81-84 and 96:
\* GenerateDataKey fails; the error goes up, the lock is released.
GenReturnErr(p) ==
    /\ pc[p] = "gen_call"
    /\ UNCHANGED bgVars
    /\ mux' = 0
    /\ kmsErr' = [kmsErr EXCEPT ![p] = TRUE]
    /\ Answer(p, 500, <<>>)
    /\ UNCHANGED <<now, currentDataKey, decryptionCache, mem, kmsKeys, nGen, nDec, saw, hadEntry, stale>>

\* A zeroing loop that stops after the first byte.
ZeroOldStopsEarly(p) ==
    /\ pc[p] = "gen_zero"
    /\ UNCHANGED bgVars
    /\ mem' = [mem EXCEPT ![currentDataKey.PlaintextKey][zi[p]] = 0]
    /\ zi' = [zi EXCEPT ![p] = @ + 1]
    /\ pc' = [pc EXCEPT ![p] = "gen_install"]
    /\ UNCHANGED <<now, currentDataKey, decryptionCache, mux, kmsKeys, reqVars,
                   currentKey, dataKey, result, cntVars>>

\* rotateDataKeyLocked, lines 120-124: one round of the zeroing loop.
ZeroOld(p) ==
    /\ pc[p] = "gen_zero"
    /\ UNCHANGED bgVars
    /\ mem' = [mem EXCEPT ![currentDataKey.PlaintextKey][zi[p]] = 0]
    /\ zi' = [zi EXCEPT ![p] = @ + 1]
    /\ pc' = [pc EXCEPT ![p] = IF zi[p] = KeyLen THEN "gen_install" ELSE "gen_zero"]
    /\ UNCHANGED <<now, currentDataKey, decryptionCache, mux, kmsKeys, reqVars,
                   currentKey, dataKey, result, cntVars>>

\* A new key whose expiry is set one interval back instead of ahead.
NewCurrentDataKeyBornExpired(r) ==
    [PlaintextKey |-> r.Plaintext,
     EncryptedKey |-> B64Encode(r.CiphertextBlob),
     GeneratedAt |-> now,
     ExpiresAt |-> now - keyRotationInterval]

\* The key rotateDataKeyLocked builds at lines 127-133.
NewCurrentDataKey(r) ==
    [PlaintextKey |-> r.Plaintext,
     EncryptedKey |-> B64Encode(r.CiphertextBlob),
     GeneratedAt |-> now,
     ExpiresAt |-> now + keyRotationInterval]

\* An installation that returns without giving the lock back.
InstallKeepsLock(p) ==
    /\ pc[p] = "gen_install"
    /\ UNCHANGED bgVars
    /\ currentDataKey' = NewCurrentDataKey(result[p])
    /\ UNCHANGED mux
    /\ IF op[p] = "rotate"
       THEN Answer(p, 200, <<>>)
       ELSE /\ pc' = [pc EXCEPT ![p] = "enc_encrypt"]
            /\ currentKey' = [currentKey EXCEPT ![p] = currentDataKey']
            /\ result' = [result EXCEPT ![p] = NilResult]
            /\ zi' = [zi EXCEPT ![p] = 0]
            /\ UNCHANGED <<reqVars, dataKey>>
    /\ UNCHANGED <<now, decryptionCache, mem, kmsKeys, cntVars>>

\* rotateDataKeyLocked, lines 126-136, then the caller's return: lines 86-87
\* of GetCurrentDataKey, or the deferred Unlock of rotateDataKey.
Install(p) ==
    /\ pc[p] = "gen_install"
    /\ UNCHANGED bgVars
    /\ currentDataKey' = NewCurrentDataKey(result[p])
    /\ mux' = 0
    /\ IF op[p] = "rotate"
       THEN Answer(p, 200, <<>>)
       ELSE /\ pc' = [pc EXCEPT ![p] = "enc_encrypt"]
            /\ currentKey' = [currentKey EXCEPT ![p] = currentDataKey']
            /\ result' = [result EXCEPT ![p] = NilResult]
            /\ zi' = [zi EXCEPT ![p] = 0]
            /\ UNCHANGED <<reqVars, dataKey>>
    /\ UNCHANGED <<now, decryptionCache, mem, kmsKeys, cntVars>>

\* ------------------------------------------------------- handleEncode
\* Lines 62-70: the bytes to encrypt.
DataToEncrypt(payload) ==
    IF payload.Data = <<>> THEN <<>>
    ELSE IF B64Valid(payload.Data) THEN B64Decode(payload.Data)
    ELSE payload.Data

\* Lines 51-52: the payload is a candidate for encryption.
ShouldEncrypt(payload) ==
    \/ ~MetaHas(payload.Metadata, "encoding")
    \/ MetaGet(payload.Metadata, "encoding") = "json/plain"

\* Lines 49-52 and 93-98: the head of the range loop.  A payload that is not
\* a candidate is skipped: the if has no else.
EncLoop(p) ==
    /\ pc[p] = "enc_loop"
    /\ UNCHANGED bgVars
    /\ IF idx[p] > Len(req[p])
       THEN /\ pc' = [pc EXCEPT ![p] = "idle"]
            /\ status' = [status EXCEPT ![p] = 200]
            /\ UNCHANGED idx
       ELSE IF ShouldEncrypt(req[p][idx[p]])
       THEN /\ pc' = [pc EXCEPT ![p] = "get_read"]
            /\ UNCHANGED <<idx, status>>
       ELSE /\ idx' = [idx EXCEPT ![p] = @ + 1]
            /\ UNCHANGED <<pc, status>>
    /\ UNCHANGED <<now, mgrVars, op, req, resp, fromEnc, locVars, cntVars>>

\* Lines 81-89: the response payload with the KMS metadata.
EncodedPayload(encryptedData, key) ==
    PayloadData(Encoding("binary/encrypted"), encryptedData, keyID,
                key.EncryptedKey, "AES-256-GCM")

\* Lines 61-91: encrypt with the bytes currentKey.PlaintextKey holds now.
EncEncrypt(p) ==
    /\ pc[p] = "enc_encrypt"
    /\ UNCHANGED bgVars
    /\ \E nonce \in Nonces :
         LET r == EncryptWithDataKey(DataToEncrypt(req[p][idx[p]]),
                                     mem[currentKey[p].PlaintextKey], nonce)
         IN IF r.err # ""
            THEN Answer(p, 500, <<>>)
            ELSE /\ resp' = [resp EXCEPT ![p] = Append(@, EncodedPayload(r.val, currentKey[p]))]
                 /\ idx' = [idx EXCEPT ![p] = @ + 1]
                 /\ pc' = [pc EXCEPT ![p] = "enc_loop"]
                 /\ currentKey' = [currentKey EXCEPT ![p] = NilKey]
                 /\ UNCHANGED <<op, req, status, fromEnc, dataKey, result, zi>>
    /\ UNCHANGED <<now, mgrVars, cntVars>>


\* ------------------------------------------- KMSManager.DecryptDataKey
\* The arguments handleDecode passes at line 133.
EncKeyArg(p) == req[p][idx[p]].EncryptedDataKey
MasterArg(p) == req[p][idx[p]].KMSKeyID

\* The entry DecryptDataKey stored for the blob is there and within its TTL.
StoredLive(encryptedKey) ==
    /\ encryptedKey \in DOMAIN decryptionCache
    /\ Before(now, decryptionCache[encryptedKey].ExpiresAt)

\* The entry DecryptDataKey stored for the blob is there and past its TTL.
StoredStale(encryptedKey) ==
    /\ encryptedKey \in DOMAIN decryptionCache
    /\ ~Before(now, decryptionCache[encryptedKey].ExpiresAt)

\* A current-key test that also wants the key unexpired.
IsCurrentKeyUnexpired(encryptedKey) ==
    /\ ~IsNil(currentDataKey)
    /\ currentDataKey.EncryptedKey = encryptedKey
    /\ ~After(now, currentDataKey.ExpiresAt)

\* Line 143: the blob is the current key's.
IsCurrentKey(encryptedKey) ==
    ~IsNil(currentDataKey) /\ currentDataKey.EncryptedKey = encryptedKey

\* Lines 142-148: the current-key path, under RLock.
DecCur(p) ==
    /\ pc[p] = "dec_cur"
    /\ UNCHANGED bgVars
    /\ mux = 0
    /\ IF IsCurrentKey(EncKeyArg(p))
       THEN /\ dataKey' = [dataKey EXCEPT ![p] = currentDataKey.PlaintextKey]
            /\ pc' = [pc EXCEPT ![p] = "dec_data"]
       ELSE /\ pc' = [pc EXCEPT ![p] = "dec_cache"]
            /\ UNCHANGED dataKey
    /\ hadEntry' = [hadEntry EXCEPT ![p] = StoredLive(EncKeyArg(p))]
    /\ stale' = [stale EXCEPT ![p] = StoredStale(EncKeyArg(p))]
    /\ UNCHANGED <<now, mgrVars, reqVars, currentKey, result, zi, nGen, nDec, kmsErr, saw>>

\* Line 152: the key the cache is looked up under.
LookupKey(encryptedKey, masterKeyARN) == SprintfColon(encryptedKey, masterKeyARN)

\* A store key that differs from one moment to the next.
StoreKeyWithTime(encryptedKey, masterKeyARN) == encryptedKey \o <<now>>

\* Line 178: the key the cache is written under.
StoreKey(encryptedKey, masterKeyARN) == encryptedKey

\* Line 153: the lookup finds an entry that has not expired.
CacheHit(cacheKey) ==
    /\ cacheKey \in DOMAIN decryptionCache
    /\ Before(now, decryptionCache[cacheKey].ExpiresAt)

\* Lines 151-158: the cache path, under RLock.
DecCache(p) ==
    /\ pc[p] = "dec_cache"
    /\ UNCHANGED bgVars
    /\ mux = 0
    /\ LET cacheKey == LookupKey(EncKeyArg(p), MasterArg(p)) IN
       IF CacheHit(cacheKey)
       THEN /\ dataKey' = [dataKey EXCEPT ![p] = decryptionCache[cacheKey].Key]
            /\ pc' = [pc EXCEPT ![p] = "dec_data"]
       ELSE /\ pc' = [pc EXCEPT ![p] = "dec_kms"]
            /\ UNCHANGED dataKey
    /\ UNCHANGED <<now, mgrVars, reqVars, currentKey, result, zi, cntVars>>

\* A KMS path that sends the blob to KMS without decoding it first.
DecKmsUndecoded(p) ==
    /\ pc[p] = "dec_kms"
    /\ UNCHANGED bgVars
    /\ pc' = [pc EXCEPT ![p] = "dec_call"]
    /\ nDec' = [nDec EXCEPT ![p] = @ + 1]
    /\ UNCHANGED <<now, mgrVars, reqVars, locVars, nGen, kmsErr, saw, hadEntry, stale>>

\* Lines 161-171: base64-decode the blob and issue kms Decrypt, no lock held.
DecKms(p) ==
    /\ pc[p] = "dec_kms"
    /\ UNCHANGED bgVars
    /\ IF ~B64Valid(EncKeyArg(p))
       THEN /\ Answer(p, 500, <<>>)
            /\ UNCHANGED nDec
       ELSE /\ pc' = [pc EXCEPT ![p] = "dec_call"]
            /\ nDec' = [nDec EXCEPT ![p] = @ + 1]
            /\ UNCHANGED <<reqVars, locVars>>
    /\ UNCHANGED <<now, mgrVars, nGen, kmsErr, saw, hadEntry, stale>>

\* What KMS unwraps: the blob of a data key it generated under this master key.
KMSKnows(blob, arn) == arn = keyID /\ \E n \in 1..kmsKeys : blob = Blob(n)
KMSUnwrap(blob) == Plain(CHOOSE n \in 1..kmsKeys : blob = Blob(n))

\* Lines 171-174: Decrypt answers with a fresh plaintext buffer.
DecReturnOk(p) ==
    /\ pc[p] = "dec_call"
    /\ UNCHANGED bgVars
    /\ Len(mem) < MaxBufs
    /\ KMSKnows(B64Decode(EncKeyArg(p)), MasterArg(p))
    /\ mem' = Append(mem, KMSUnwrap(B64Decode(EncKeyArg(p))))
    /\ result' = [result EXCEPT ![p] = [Plaintext |-> Len(mem) + 1,
                                         CiphertextBlob |-> <<>>]]
    /\ pc' = [pc EXCEPT ![p] = "dec_insert"]
    /\ UNCHANGED <<now, currentDataKey, decryptionCache, mux, kmsKeys, reqVars,
                   currentKey, dataKey, zi, cntVars>>

\* Lines 172-174, then handleDecode lines 134-138: Decrypt fails.
DecReturnErr(p) ==
    /\ pc[p] = "dec_call"
    /\ UNCHANGED bgVars
    /\ kmsErr' = [kmsErr EXCEPT ![p] = TRUE]
    /\ Answer(p, 500, <<>>)
    /\ UNCHANGED <<now, mgrVars, nGen, nDec, saw, hadEntry, stale>>

\* An entry that is stored already expired.
CachedKeyNoTTL(r) == [Key |-> r.Plaintext, ExpiresAt |-> now]

\* Lines 178-181: the entry built for a KMS result.
CachedKey(r) == [Key |-> r.Plaintext, ExpiresAt |-> now + cacheTTL]

\* An insert that returns by looking the blob up again.
DecInsertThenLookup(p) ==
    /\ pc[p] = "dec_insert"
    /\ UNCHANGED bgVars
    /\ mux = 0
    /\ LET k == StoreKey(EncKeyArg(p), MasterArg(p))
           e == CachedKey(result[p])
       IN decryptionCache' = [x \in DOMAIN decryptionCache \cup {k} |->
                                 IF x = k THEN e ELSE decryptionCache[x]]
    /\ result' = [result EXCEPT ![p] = NilResult]
    /\ pc' = [pc EXCEPT ![p] = "dec_cur"]
    /\ UNCHANGED <<now, currentDataKey, mux, mem, kmsKeys, reqVars, currentKey,
                   dataKey, zi, cntVars>>

\* Lines 177-185: store the buffer in the cache under Lock and return the
\* same buffer.
DecInsert(p) ==
    /\ pc[p] = "dec_insert"
    /\ UNCHANGED bgVars
    /\ mux = 0
    /\ LET k == StoreKey(EncKeyArg(p), MasterArg(p))
           e == CachedKey(result[p])
       IN decryptionCache' = [x \in DOMAIN decryptionCache \cup {k} |->
                                 IF x = k THEN e ELSE decryptionCache[x]]
    /\ dataKey' = [dataKey EXCEPT ![p] = result[p].Plaintext]
    /\ result' = [result EXCEPT ![p] = NilResult]
    /\ pc' = [pc EXCEPT ![p] = "dec_data"]
    /\ UNCHANGED <<now, currentDataKey, mux, mem, kmsKeys, reqVars, currentKey,
                   zi, cntVars>>

\* ------------------------------------------------------- handleDecode
\* A pass-through that encodes the data once more.
PassedThroughReencoded(payload) == [payload EXCEPT !.Data = B64Encode(@)]

\* Line 121: a payload that is not encrypted goes to the response as it is.
PassedThrough(payload) == payload

\* A key check that lets every payload through.
KeyMissingNever(payload) == FALSE

\* Line 126: the encrypted payload carries no encrypted data key.
KeyMissing(payload) == payload.EncryptedDataKey = <<>>

\* Lines 117-130 and 160-165: the head of the range loop.
DecLoop(p) ==
    /\ pc[p] = "dec_loop"
    /\ UNCHANGED bgVars
    /\ IF idx[p] > Len(req[p])
       THEN /\ pc' = [pc EXCEPT ![p] = "idle"]
            /\ status' = [status EXCEPT ![p] = 200]
            /\ UNCHANGED <<idx, resp, op, req, fromEnc, locVars>>
       ELSE LET payload == req[p][idx[p]] IN
            IF MetaGet(payload.Metadata, "encoding") # "binary/encrypted"
            THEN /\ resp' = [resp EXCEPT ![p] = Append(@, PassedThrough(payload))]
                 /\ idx' = [idx EXCEPT ![p] = @ + 1]
                 /\ UNCHANGED <<pc, status, op, req, fromEnc, locVars>>
            ELSE IF KeyMissing(payload)
            THEN Answer(p, 400, <<>>)
            ELSE /\ pc' = [pc EXCEPT ![p] = "dec_cur"]
                 /\ UNCHANGED <<reqVars, locVars>>
    /\ UNCHANGED <<now, mgrVars, cntVars>>

\* A decoded payload that still names the master key and the algorithm.
DecodedPayloadKeepsKey(decryptedData) ==
    PayloadData(Encoding("json/plain"), B64Encode(decryptedData), keyID, <<>>, "AES-256-GCM")

\* Lines 152-157: the decoded payload.
DecodedPayload(decryptedData) ==
    PayloadData(Encoding("json/plain"), B64Encode(decryptedData), <<>>, <<>>, "")

\* A decryption step that leaves a payload out when it cannot decrypt it.
DecDataSkipsOnError(p) ==
    /\ pc[p] = "dec_data"
    /\ UNCHANGED bgVars
    /\ LET r == DecryptWithDataKey(req[p][idx[p]].Data, mem[dataKey[p]]) IN
       resp' = [resp EXCEPT ![p] = IF r.err # "" THEN @
                                    ELSE Append(@, DecodedPayload(r.val))]
    /\ idx' = [idx EXCEPT ![p] = @ + 1]
    /\ pc' = [pc EXCEPT ![p] = "dec_loop"]
    /\ dataKey' = [dataKey EXCEPT ![p] = 0]
    /\ UNCHANGED <<op, req, status, fromEnc, currentKey, result, zi>>
    /\ UNCHANGED <<now, mgrVars, cntVars>>

\* Lines 140-159: decrypt with the bytes dataKey holds now.
DecData(p) ==
    /\ pc[p] = "dec_data"
    /\ UNCHANGED bgVars
    /\ LET r == DecryptWithDataKey(req[p][idx[p]].Data, mem[dataKey[p]]) IN
       IF r.err # ""
       THEN Answer(p, 500, <<>>)
       ELSE /\ resp' = [resp EXCEPT ![p] = Append(@, DecodedPayload(r.val))]
            /\ idx' = [idx EXCEPT ![p] = @ + 1]
            /\ pc' = [pc EXCEPT ![p] = "dec_loop"]
            /\ dataKey' = [dataKey EXCEPT ![p] = 0]
            /\ UNCHANGED <<op, req, status, fromEnc, currentKey, result, zi>>
    /\ UNCHANGED <<now, mgrVars, cntVars>>

\* -------------------------------------------------------- handleStats
\* A GET /stats request arrives at goroutine p (main.go line 249).
StartStats(p) == Begin(p, "stats", <<>>, "stats_read", FALSE)

\* The map GetKeyStats builds at lines 243-251.
KeyStats ==
    IF IsNil(currentDataKey)
    THEN [cached_keys_count |-> Cardinality(DOMAIN decryptionCache)]
    ELSE [cached_keys_count |-> Cardinality(DOMAIN decryptionCache),
          current_key_age |-> now - currentDataKey.GeneratedAt,
          current_key_expires_in |-> currentDataKey.ExpiresAt - now,
          current_key_expired |-> After(now, currentDataKey.ExpiresAt)]

\* handleStats, lines 169-180, and GetKeyStats, lines 239-254: the map is
\* built under RLock, which the deferred RUnlock gives back on return.
GetKeyStats(p) ==
    /\ pc[p] = "stats_read"
    /\ UNCHANGED bgVars
    /\ mux = 0
    /\ Answer(p, 200, <<KeyStats>>)
    /\ UNCHANGED <<now, mgrVars, cntVars>>

\* ---------------------------------------------------------- background
\* A sweep that goes by the test of the cache lookup: every entry that is
\* no longer within its TTL.
EntriesNotLive == {k \in DOMAIN decryptionCache : ~Before(now, decryptionCache[k].ExpiresAt)}

\* Line 197: the entries CleanupCache removes.
ExpiredEntries == {k \in DOMAIN decryptionCache : After(now, decryptionCache[k].ExpiresAt)}

\* A sweep that also wipes the current data key once it has expired.
CleanupCacheWipesCurrent ==
    /\ mux = 0
    /\ LET gone == ExpiredEntries
           bufs == {decryptionCache[k].Key : k \in gone}
                   \cup {b \in {currentDataKey.PlaintextKey} : After(now, currentDataKey.ExpiresAt)}
       IN /\ mem' = [b \in 1..Len(mem) |-> IF b \in bufs THEN Zeros ELSE mem[b]]
          /\ decryptionCache' = [k \in DOMAIN decryptionCache \ gone |-> decryptionCache[k]]
    /\ swept' = TRUE
    /\ UNCHANGED <<now, currentDataKey, mux, kmsKeys, pc, reqVars, locVars, cntVars,
                   abandoned, monitor>>

\* CleanupCache, lines 189-210, the whole of it under Lock.
CleanupCache ==
    /\ mux = 0
    /\ LET gone == ExpiredEntries
           bufs == {decryptionCache[k].Key : k \in gone}
       IN /\ mem' = [b \in 1..Len(mem) |-> IF b \in bufs THEN Zeros ELSE mem[b]]
          /\ decryptionCache' = [k \in DOMAIN decryptionCache \ gone |-> decryptionCache[k]]
    /\ swept' = TRUE
    /\ UNCHANGED <<now, currentDataKey, mux, kmsKeys, pc, reqVars, locVars, cntVars,
                   abandoned, monitor>>

\* A monitoring routine that retires the key it warns about.
MonitorTickRetiresKey ==
    /\ mux = 0
    /\ monitor' = IF ~IsNil(currentDataKey) /\ currentDataKey.ExpiresAt - now < WarnBefore
                  THEN "warned" ELSE "quiet"
    /\ currentDataKey' = IF monitor' = "warned"
                         THEN [currentDataKey EXCEPT !.ExpiresAt = now - 1]
                         ELSE currentDataKey
    /\ UNCHANGED <<now, decryptionCache, mux, mem, kmsKeys, pc, reqVars, locVars,
                   cntVars, swept, abandoned>>

\* StartCacheCleanup, lines 224-235: one tick of the monitoring routine.
\* Under RLock it compares time.Until(ExpiresAt) with the threshold and
\* logs a warning or nothing.
MonitorTick ==
    /\ mux = 0
    /\ monitor' = IF ~IsNil(currentDataKey) /\ currentDataKey.ExpiresAt - now < WarnBefore
                  THEN "warned" ELSE "quiet"
    /\ UNCHANGED <<now, mgrVars, pc, reqVars, locVars, cntVars, swept, abandoned>>

\* ------------------------------------------------------- specification
\* The server as main wires it: /encode and /decode requests, the sweep.
NextServer ==
    \/ Tick
    \/ CleanupCache
    \/ \E p \in Procs : \E r \in EncodeRequests : StartEncode(p, r)
    \/ \E p \in Procs : \E r \in DecodeRequests : StartDecode(p, r, TRUE)
    \/ \E p \in Procs : GetRead(p)
    \/ \E p \in Procs : GetLock(p)
    \/ \E p \in Procs : GenReturnOk(p)
    \/ \E p \in Procs : GenReturnErr(p)
    \/ \E p \in Procs : ZeroOld(p)
    \/ \E p \in Procs : Install(p)
    \/ \E p \in Procs : EncLoop(p)
    \/ \E p \in Procs : EncEncrypt(p)
    \/ \E p \in Procs : DecLoop(p)
    \/ \E p \in Procs : DecCur(p)
    \/ \E p \in Procs : DecCache(p)
    \/ \E p \in Procs : DecKms(p)
    \/ \E p \in Procs : DecReturnOk(p)
    \/ \E p \in Procs : DecReturnErr(p)
    \/ \E p \in Procs : DecInsert(p)
    \/ \E p \in Procs : DecData(p)

Spec == Init /\ [][NextServer]_vars


\* The rotation interface alone: rotateDataKey callable at any time, as the
\* spec's rotate(), beside encode requests calling GetCurrentDataKey.
NextApi ==
    \/ Tick
    \/ \E p \in Procs : \E r \in EncodeRequests : StartEncode(p, r)
    \/ \E p \in Procs : StartRotate(p)
    \/ \E p \in Procs : RotLock(p)
    \/ \E p \in Procs : GetRead(p)
    \/ \E p \in Procs : GetLock(p)
    \/ \E p \in Procs : GenReturnOk(p)
    \/ \E p \in Procs : GenReturnErr(p)
    \/ \E p \in Procs : ZeroOld(p)
    \/ \E p \in Procs : Install(p)
    \/ \E p \in Procs : EncLoop(p)
    \/ \E p \in Procs : EncEncrypt(p)

SpecApi == Init /\ [][NextApi]_vars

\* One goroutine serving batches of mixed payloads.
RawText == <<33>>
NoEncoding == PayloadData({}, RawText, <<>>, <<>>, "")
OtherEncoding == PayloadData(Encoding("binary/other"), B64Encode(PlainData), <<>>, <<>>, "")
MissingKey == [EncryptedUnder(1) EXCEPT !.EncryptedDataKey = <<>>]
BadData == [EncryptedUnder(1) EXCEPT !.Data = RawText]
BadBlob == [EncryptedUnder(1) EXCEPT !.EncryptedDataKey = RawText]

\* What handleEncode emits for a second plaintext while data key 1 is current.
OtherData == <<6>>
EncryptedOther ==
    PayloadData(Encoding("binary/encrypted"),
                EncryptWithDataKey(OtherData, Plain(1), 7).val,
                keyID, B64Encode(Blob(1)), "AES-256-GCM")

EncodeKinds == {PlainJSON, NoEncoding, OtherEncoding}
DecodeKinds ==
    {EncryptedUnder(n) : n \in 1..CurrentKeyNumber}
    \cup {PlainJSON, OtherEncoding, EncryptedOther, MissingKey, BadData, BadBlob}

Batches(kinds) == UNION {[1..n -> kinds] : n \in 1..MaxBatch}

NextBatch ==
    \/ Tick
    \/ CleanupCache
    \/ \E p \in {1} : \E r \in Batches(EncodeKinds) : StartEncode(p, r)
    \/ \E p \in {1} : \E r \in Batches(DecodeKinds) : StartDecode(p, r, FALSE)
    \/ \E p \in {1} : GetRead(p)
    \/ \E p \in {1} : GetLock(p)
    \/ \E p \in {1} : GenReturnOk(p)
    \/ \E p \in {1} : GenReturnErr(p)
    \/ \E p \in {1} : ZeroOld(p)
    \/ \E p \in {1} : Install(p)
    \/ \E p \in {1} : EncLoop(p)
    \/ \E p \in {1} : EncEncrypt(p)
    \/ \E p \in {1} : DecLoop(p)
    \/ \E p \in {1} : DecCur(p)
    \/ \E p \in {1} : DecCache(p)
    \/ \E p \in {1} : DecKms(p)
    \/ \E p \in {1} : DecReturnOk(p)
    \/ \E p \in {1} : DecReturnErr(p)
    \/ \E p \in {1} : DecInsert(p)
    \/ \E p \in {1} : DecData(p)

SpecBatch == Init /\ [][NextBatch]_vars

\* EncryptWithDataKey and DecryptWithDataKey on their own: any key of up to
\* one byte more than an AES-256 key, any short plaintext.
CryptKeys == UNION {[1..n -> {0, 1}] : n \in 0..(KeyLen + 1)}
CryptData == UNION {[1..n -> {5, 6}] : n \in 0..MaxData}
CryptNonces == {7, 8}

\* Ciphertexts to hand to DecryptWithDataKey when there is none of its own.
CryptInputs == {B64Encode(Seal(Zeros, 7, <<5>>)), RawText, <<>>}

InitCrypt ==
    /\ now = 0
    /\ kmsKeys = 1
    /\ mem \in {<<k>> : k \in CryptKeys}
    /\ currentDataKey = NilKey
    /\ decryptionCache = [k \in {} |-> [Key |-> 0, ExpiresAt |-> 0]]
    /\ mux = 0
    /\ pc = [p \in Procs |-> IF p = 1 THEN "crypt_enc" ELSE "idle"]
    /\ op = [p \in Procs |-> IF p = 1 THEN "crypt" ELSE "none"]
    /\ req \in {[p \in Procs |-> IF p = 1 THEN <<d>> ELSE <<>>] : d \in CryptData}
    /\ idx = [p \in Procs |-> 0]
    /\ resp = [p \in Procs |-> <<>>]
    /\ status = [p \in Procs |-> 0]
    /\ currentKey = [p \in Procs |-> NilKey]
    /\ dataKey = [p \in Procs |-> IF p = 1 THEN 1 ELSE 0]
    /\ result = [p \in Procs |-> NilResult]
    /\ zi = [p \in Procs |-> 0]
    /\ nGen = [p \in Procs |-> 0]
    /\ nDec = [p \in Procs |-> 0]
    /\ kmsErr = [p \in Procs |-> FALSE]
    /\ saw = [p \in Procs |-> <<>>]
    /\ hadEntry = [p \in Procs |-> FALSE]
    /\ stale = [p \in Procs |-> FALSE]
    /\ fromEnc = [p \in Procs |-> FALSE]
    /\ swept = FALSE
    /\ abandoned = [p \in Procs |-> FALSE]
    /\ monitor = "none"

\* EncryptWithDataKey(data, key): req[p][1] is data, mem[dataKey[p]] is key;
\* its outcome becomes resp[p][1].
CryptEncrypt(p) ==
    /\ pc[p] = "crypt_enc"
    /\ \E nonce \in CryptNonces :
         resp' = [resp EXCEPT ![p] =
                    <<EncryptWithDataKey(req[p][1], mem[dataKey[p]], nonce)>>]
    /\ pc' = [pc EXCEPT ![p] = "crypt_dec"]
    /\ UNCHANGED <<now, mgrVars, op, req, idx, status, fromEnc, locVars, cntVars, bgVars>>

\* DecryptWithDataKey(encodedData, key) with the same key, on what
\* EncryptWithDataKey returned or, if it returned an error, on some other
\* input; its outcome becomes resp[p][2].
CryptDecrypt(p) ==
    /\ pc[p] = "crypt_dec"
    /\ \E encodedData \in (IF resp[p][1].err = "" THEN {resp[p][1].val} ELSE CryptInputs) :
         resp' = [resp EXCEPT ![p] =
                    Append(@, DecryptWithDataKey(encodedData, mem[dataKey[p]]))]
    /\ pc' = [pc EXCEPT ![p] = "crypt_done"]
    /\ UNCHANGED <<now, mgrVars, op, req, idx, status, fromEnc, locVars, cntVars, bgVars>>

NextCrypt ==
    \/ \E p \in {1} : CryptEncrypt(p)
    \/ \E p \in {1} : CryptDecrypt(p)

SpecCrypt == InitCrypt /\ [][NextCrypt]_vars

\* ------------------------------------------------- abandoned requests
\* A handler that stops where it stands when its client goes away.
AbandonStopsHandler(p) ==
    /\ pc[p] # "idle"
    /\ ~abandoned[p]
    /\ abandoned' = [abandoned EXCEPT ![p] = TRUE]
    /\ pc' = [pc EXCEPT ![p] = "idle"]
    /\ UNCHANGED <<now, mgrVars, reqVars, locVars, cntVars, swept, monitor>>

\* The client of a request in progress goes away (timeout, disconnect).
\* net/http cancels r.Context(); the handlers never read it: they hand
\* context.Background() to the manager (main.go lines 47 and 115), so the
\* goroutine and its KMS call go on.
Abandon(p) ==
    /\ pc[p] # "idle"
    /\ ~abandoned[p]
    /\ abandoned' = [abandoned EXCEPT ![p] = TRUE]
    /\ UNCHANGED <<now, mgrVars, pc, reqVars, locVars, cntVars, swept, monitor>>

\* Encode requests whose clients may go away at any moment.
NextAbandon ==
    \/ Tick
    \/ \E p \in Procs : \E r \in EncodeRequests : StartEncode(p, r)
    \/ \E p \in Procs : Abandon(p)
    \/ \E p \in Procs : GetRead(p)
    \/ \E p \in Procs : GetLock(p)
    \/ \E p \in Procs : GenReturnOk(p)
    \/ \E p \in Procs : GenReturnErr(p)
    \/ \E p \in Procs : ZeroOld(p)
    \/ \E p \in Procs : Install(p)
    \/ \E p \in Procs : EncLoop(p)
    \/ \E p \in Procs : EncEncrypt(p)

\* Scheduling: a goroutine inside GetCurrentDataKey that can take a step
\* takes it, KMS answers every GenerateDataKey call, and a goroutine
\* waiting for the mutex gets it if it is free again and again
\* (sync.RWMutex hands the lock to a starving waiter).
FairAbandon ==
    \A p \in Procs :
        /\ WF_vars(GenReturnOk(p) \/ GenReturnErr(p))
        /\ WF_vars(ZeroOld(p))
        /\ WF_vars(Install(p))
        /\ SF_vars(GetLock(p))

SpecAbandon == Init /\ [][NextAbandon]_vars /\ FairAbandon

\* ------------------------------------------------- background routines
\* The two routines StartCacheCleanup starts, beside one goroutine serving
\* requests of one payload.
NextBackground ==
    \/ Tick
    \/ CleanupCache
    \/ MonitorTick
    \/ \E p \in {1} : \E r \in EncodeRequests : StartEncode(p, r)
    \/ \E p \in {1} : \E r \in DecodeRequests : StartDecode(p, r, TRUE)
    \/ \E p \in {1} : GetRead(p)
    \/ \E p \in {1} : GetLock(p)
    \/ \E p \in {1} : GenReturnOk(p)
    \/ \E p \in {1} : GenReturnErr(p)
    \/ \E p \in {1} : ZeroOld(p)
    \/ \E p \in {1} : Install(p)
    \/ \E p \in {1} : EncLoop(p)
    \/ \E p \in {1} : EncEncrypt(p)
    \/ \E p \in {1} : DecLoop(p)
    \/ \E p \in {1} : DecCur(p)
    \/ \E p \in {1} : DecCache(p)
    \/ \E p \in {1} : DecKms(p)
    \/ \E p \in {1} : DecReturnOk(p)
    \/ \E p \in {1} : DecReturnErr(p)
    \/ \E p \in {1} : DecInsert(p)
    \/ \E p \in {1} : DecData(p)

SpecBackground == Init /\ [][NextBackground]_vars

\* ------------------------------------------------ the worker's client
\* A Temporal payload (commonpb.Payload): metadata and raw bytes.
TemporalPayload(meta, data) == [Metadata |-> meta, Data |-> data]
TemporalPlain == TemporalPayload(Encoding("json/plain"), PlainData)

\* RemoteCodecClient.Encode and Decode, lines 40-51 and 93-104: the request
\* payload built from a Temporal payload, its metadata map and its data in
\* base64 and nothing else.
ToPayloadData(payload) ==
    PayloadData(payload.Metadata, B64Encode(payload.Data), <<>>, <<>>, "")

\* Lines 60-77 and 113-130: the Temporal payload built from a response
\* payload, its metadata map and its data decoded from base64.
FromPayloadData(payloadData) ==
    TemporalPayload(payloadData.Metadata, B64Decode(payloadData.Data))

ClientRequest(payloads) == [i \in 1..Len(payloads) |-> ToPayloadData(payloads[i])]
ClientResult(payloads) == [i \in 1..Len(payloads) |-> FromPayloadData(payloads[i])]

\* What RemoteCodecClient.Encode has returned to the worker so far.
EncodedByClient ==
    {ClientResult(resp[q]) : q \in {r \in Procs : /\ op[r] = "encode" /\ pc[r] = "idle"
                                                  /\ status[r] = 200 /\ resp[r] # <<>>}}

\* The server reached through RemoteCodecClient: Encode of a plain payload,
\* Decode of what Encode returned.  Such a decode request never gets past
\* the head of the loop, so the rest of handleDecode is not here.
NextWorker ==
    \/ Tick
    \/ \E p \in Procs : StartEncode(p, ClientRequest(<<TemporalPlain>>))
    \/ \E p \in Procs : \E r \in EncodedByClient : StartDecode(p, ClientRequest(r), TRUE)
    \/ \E p \in Procs : GetRead(p)
    \/ \E p \in Procs : GetLock(p)
    \/ \E p \in Procs : GenReturnOk(p)
    \/ \E p \in Procs : GenReturnErr(p)
    \/ \E p \in Procs : ZeroOld(p)
    \/ \E p \in Procs : Install(p)
    \/ \E p \in Procs : EncLoop(p)
    \/ \E p \in Procs : EncEncrypt(p)
    \/ \E p \in Procs : DecLoop(p)

SpecWorker == Init /\ [][NextWorker]_vars

\* ------------------------------------------------------------ the mutex
\* Decode requests for the first data key: the current key until the
\* first rotation, a superseded one after it.
LockDecodeRequests == {<<EncryptedUnder(1)>>}

\* Every user of KMSManager.mux side by side: the sweep, the monitoring
\* routine, one goroutine serving /encode and the others serving /encode,
\* /decode and /stats.
NextLock ==
    \/ Tick
    \/ CleanupCache
    \/ MonitorTick
    \/ \E p \in Procs : \E r \in EncodeRequests : StartEncode(p, r)
    \/ \E p \in Procs \ {1} : \E r \in LockDecodeRequests : StartDecode(p, r, TRUE)
    \/ \E p \in Procs \ {1} : StartStats(p)
    \/ \E p \in Procs : GetKeyStats(p)
    \/ \E p \in Procs : GetRead(p)
    \/ \E p \in Procs : GetLock(p)
    \/ \E p \in Procs : GenReturnOk(p)
    \/ \E p \in Procs : GenReturnErr(p)
    \/ \E p \in Procs : ZeroOld(p)
    \/ \E p \in Procs : Install(p)
    \/ \E p \in Procs : EncLoop(p)
    \/ \E p \in Procs : EncEncrypt(p)
    \/ \E p \in Procs : DecLoop(p)
    \/ \E p \in Procs : DecCur(p)
    \/ \E p \in Procs : DecCache(p)
    \/ \E p \in Procs : DecKms(p)
    \/ \E p \in Procs : DecReturnOk(p)
    \/ \E p \in Procs : DecReturnErr(p)
    \/ \E p \in Procs : DecInsert(p)
    \/ \E p \in Procs : DecData(p)

\* The steps of goroutine p that take the mutex or are taken with it held:
\* the answer of GenerateDataKey, the rest of rotateDataKeyLocked, and
\* every RLock and Lock of GetCurrentDataKey, DecryptDataKey, GetKeyStats.
LockStep(p) ==
    \/ GenReturnOk(p) \/ GenReturnErr(p) \/ ZeroOld(p) \/ Install(p)
    \/ GetRead(p) \/ GetLock(p)
    \/ DecCur(p) \/ DecCache(p) \/ DecInsert(p)
    \/ GetKeyStats(p)

\* Scheduling: KMS answers every GenerateDataKey call, the goroutine
\* holding the mutex goes on with rotateDataKeyLocked, and a goroutine
\* waiting at RLock or Lock gets the mutex if it is free again and again
\* (sync.RWMutex queues its waiters).
FairLock == \A p \in Procs : SF_vars(LockStep(p))

SpecLock == Init /\ [][NextLock]_vars /\ FairLock

\* Where a goroutine stands in front of RLock or Lock.
AtLock == {"get_read", "get_lock", "dec_cur", "dec_cache", "dec_insert", "stats_read"}

\* ---------------------------------------------------------------- claims
\* What the blob of a data key unwraps to.
PlaintextOf(encryptedKey) == KMSUnwrap(B64Decode(encryptedKey))

\* C1: a DecryptDataKey call made after an earlier call stored the blob in
\* the cache, whose cache check finds the entry still stored and unexpired,
\* returns from the cache and issues no KMS call.
C1_CacheHitAvoidsKMS ==
    [][\A p \in Procs :
         (/\ pc[p] = "dec_cache" /\ pc'[p] # "dec_cache"
          /\ hadEntry[p] /\ StoredLive(EncKeyArg(p)))
         => (pc'[p] = "dec_data" /\ nDec'[p] = nDec[p])]_vars

\* C2: the bytes an encode request is about to encrypt with are the plaintext
\* its key's own encrypted blob unwraps to.
C2_ReaderSeesWholeKey ==
    \A p \in Procs :
        pc[p] = "enc_encrypt"
        => mem[currentKey[p].PlaintextKey] = PlaintextOf(currentKey[p].EncryptedKey)

RotationBody == {"gen_call", "gen_zero", "gen_install"}

\* C3: a GetCurrentDataKey caller that found the key expired and takes the
\* write lock issues GenerateDataKey exactly when the key is still expired,
\* and never while another rotation is under way; otherwise it issues
\* nothing and returns the installed key, which is not the expired one it saw.
C3_OneGenerationPerExpiry ==
    [][\A p \in Procs :
         (pc[p] = "get_lock" /\ pc'[p] # "get_lock")
         => /\ \A q \in Procs \ {p} : pc[q] \notin RotationBody
            /\ IF After(now, currentDataKey.ExpiresAt)
               THEN pc'[p] = "gen_call" /\ nGen'[p] = nGen[p] + 1
               ELSE /\ pc'[p] = "enc_encrypt"
                    /\ nGen'[p] = nGen[p]
                    /\ currentKey'[p] = currentDataKey
                    /\ currentKey'[p].EncryptedKey # saw[p]]_vars

\* C3 witness: two callers saw the same expired key; one rotated, the other
\* issued nothing, and both hold the key that rotation installed.
C3_Witness ==
    \E p, q \in Procs :
        /\ p # q
        /\ pc[p] = "enc_encrypt" /\ pc[q] = "enc_encrypt"
        /\ saw[p] # <<>> /\ saw[p] = saw[q]
        /\ nGen[p] = 1 /\ nGen[q] = 0
        /\ currentKey[p] = currentDataKey /\ currentKey[q] = currentDataKey
        /\ currentDataKey.EncryptedKey # saw[p]

\* The plaintext a symbolic ciphertext holds.
SealedData(payload) ==
    LET data == B64Decode(payload.Data) IN SubSeq(data, NonceSize + KeyLen + 1, Len(data))

\* C4: a decode request made of handleEncode output, with no KMS failure,
\* is answered 200 with one json/plain payload per input whose data
\* base64-decodes to the bytes that were encrypted.
C4_EncodedAlwaysDecodes ==
    \A p \in Procs :
        (op[p] = "decode" /\ pc[p] = "idle" /\ fromEnc[p] /\ ~kmsErr[p])
        => /\ status[p] = 200
           /\ Len(resp[p]) = Len(req[p])
           /\ \A i \in 1..Len(req[p]) :
                /\ MetaGet(resp[p][i].Metadata, "encoding") = "json/plain"
                /\ B64Valid(resp[p][i].Data)
                /\ B64Decode(resp[p][i].Data) = SealedData(req[p][i])

\* C5: in an answered encode request, every input payload that carries an
\* encoding other than json/plain is in the response unchanged.
C5_OtherEncodingPassedThrough ==
    \A p \in Procs :
        (op[p] = "encode" /\ pc[p] = "idle" /\ status[p] = 200)
        => \A i \in 1..Len(req[p]) :
             (/\ MetaHas(req[p][i].Metadata, "encoding")
              /\ MetaGet(req[p][i].Metadata, "encoding") # "json/plain")
             => \E j \in 1..Len(resp[p]) : resp[p][j] = req[p][i]

\* C6: when GenerateDataKey fails the caller gets an error and the current
\* key is as it was: same record, its plaintext buffer whole.
C6_FailedRotationKeepsKey ==
    [][\A p \in Procs :
         (pc[p] = "gen_call" /\ pc'[p] = "idle")
         => /\ status'[p] = 500
            /\ currentDataKey' = currentDataKey
            /\ mem'[currentDataKey.PlaintextKey] = PlaintextOf(currentDataKey.EncryptedKey)
            /\ mux' = 0]_vars

\* C6 witness: a rotation attempt has failed, by GetCurrentDataKey or by
\* rotateDataKey, and the key of before is still current and whole.
C6_Witness ==
    \E p, q \in Procs :
        /\ pc[p] = "idle" /\ op[p] = "rotate" /\ kmsErr[p] /\ status[p] = 500
        /\ pc[q] = "idle" /\ op[q] = "encode" /\ kmsErr[q] /\ status[q] = 500
        /\ mem[currentDataKey.PlaintextKey] = PlaintextOf(currentDataKey.EncryptedKey)

\* C7: a successful rotation installs the key GenerateDataKey returned (a
\* blob other than the old one), expiring one rotation interval after the
\* rotation, with every byte of the old plaintext buffer zero; and
\* GetCurrentDataKey returns the installed key while it is unexpired.
C7_RotationInstallsAndZeroes ==
    [][\A p \in Procs :
         /\ (pc[p] = "gen_install" /\ pc'[p] # "gen_install")
            => /\ currentDataKey'.EncryptedKey = B64Encode(result[p].CiphertextBlob)
               /\ currentDataKey'.EncryptedKey # currentDataKey.EncryptedKey
               /\ currentDataKey'.ExpiresAt = now + keyRotationInterval
               /\ mem'[currentDataKey'.PlaintextKey] = PlaintextOf(currentDataKey'.EncryptedKey)
               /\ mem'[currentDataKey.PlaintextKey] = Zeros
         /\ (pc[p] = "get_read" /\ pc'[p] # "get_read" /\ ~After(now, currentDataKey.ExpiresAt))
            => (pc'[p] = "enc_encrypt" /\ currentKey'[p] = currentDataKey)]_vars

\* C7 witness: rotateDataKey has succeeded, the old buffer is zero, and a
\* GetCurrentDataKey caller holds the new key.
C7_Witness ==
    \E p, q \in Procs :
        /\ pc[p] = "idle" /\ op[p] = "rotate" /\ status[p] = 200
        /\ pc[q] = "enc_encrypt" /\ currentKey[q] = currentDataKey /\ nGen[q] = 0
        /\ currentDataKey.PlaintextKey = 2
        /\ mem[1] = Zeros

\* C8: no goroutine has a KMS call in flight while it holds the write lock.
C8_NoKMSCallUnderLock ==
    \A p \in Procs : pc[p] \in {"gen_call", "dec_call"} => mux # p

\* The buffers the manager refers to: the current key's, the cache entries',
\* and a KMS result on its way into the manager.
Referenced(b) ==
    \/ b = currentDataKey.PlaintextKey
    \/ \E k \in DOMAIN decryptionCache : decryptionCache[k].Key = b
    \/ \E p \in Procs : result[p].Plaintext = b

\* C9: every plaintext buffer the manager no longer refers to is all zero.
C9_AbandonedBuffersZeroed ==
    \A b \in 1..Len(mem) : ~Referenced(b) => mem[b] = Zeros

\* C10: DecryptDataKey for the current key's blob returns the current key's
\* plaintext buffer, whole, with no KMS call and the cache untouched,
\* expired or not.
C10_CurrentBlobNoKMS ==
    [][\A p \in Procs :
         (/\ pc[p] = "dec_cur" /\ pc'[p] # "dec_cur"
          /\ currentDataKey.EncryptedKey = EncKeyArg(p))
         => /\ pc'[p] = "dec_data"
            /\ dataKey'[p] = currentDataKey.PlaintextKey
            /\ mem'[dataKey'[p]] = PlaintextOf(EncKeyArg(p))
            /\ nDec'[p] = nDec[p]
            /\ decryptionCache' = decryptionCache
            /\ mem' = mem]_vars

\* C10 witness: a decode holds the current key's buffer, obtained with no
\* KMS call, while the current key is past its expiry.
C10_Witness ==
    \E p \in Procs :
        /\ pc[p] = "dec_data"
        /\ dataKey[p] = currentDataKey.PlaintextKey
        /\ After(now, currentDataKey.ExpiresAt)
        /\ nDec[p] = 0
        /\ mem[dataKey[p]] = PlaintextOf(EncKeyArg(p))

\* C11: a DecryptDataKey call for a non-current blob whose stored entry was
\* past its TTL goes to KMS, issues one Decrypt call and no more, and on
\* success stores the returned buffer for the blob with expiry the time of
\* the insertion plus the cache TTL.
C11_ExpiredEntryRefetched ==
    [][\A p \in Procs :
         stale[p] =>
           /\ (pc[p] = "dec_cache" /\ pc'[p] # "dec_cache")
              => (pc'[p] = "dec_kms" /\ nDec'[p] = 0)
           /\ (pc[p] = "dec_kms" /\ pc'[p] # "dec_kms")
              => (pc'[p] = "dec_call" /\ nDec'[p] = 1)
           /\ (pc[p] = "dec_call" /\ pc'[p] # "dec_call")
              => (pc'[p] \in {"dec_insert", "idle"} /\ nDec'[p] = 1)
           /\ (pc[p] = "dec_insert" /\ pc'[p] # "dec_insert")
              => /\ pc'[p] = "dec_data" /\ nDec'[p] = 1
                 /\ EncKeyArg(p) \in DOMAIN decryptionCache'
                 /\ decryptionCache'[EncKeyArg(p)].Key = dataKey'[p]
                 /\ decryptionCache'[EncKeyArg(p)].ExpiresAt = now + cacheTTL
                 /\ mem'[dataKey'[p]] = PlaintextOf(EncKeyArg(p))]_vars

\* C11 witness: a call that found the blob's entry past its TTL has made its
\* one Decrypt call and the blob is stored again, good for one more TTL.
C11_Witness ==
    \E p \in Procs :
        /\ pc[p] = "dec_data" /\ stale[p] /\ nDec[p] = 1
        /\ EncKeyArg(p) \in DOMAIN decryptionCache
        /\ decryptionCache[EncKeyArg(p)] = [Key |-> dataKey[p], ExpiresAt |-> now + cacheTTL]
        /\ ~IsCurrentKey(EncKeyArg(p))

\* An encrypted payload without its encrypted data key.
Malformed(payload) ==
    /\ MetaGet(payload.Metadata, "encoding") = "binary/encrypted"
    /\ payload.EncryptedDataKey = <<>>

\* C12: an answered decode request that held an encrypted payload without
\* its encrypted data key was failed with the missing-key client error and
\* returned no payloads.
C12_MissingKeyFailsBatch ==
    \A p \in Procs :
        (/\ op[p] = "decode" /\ pc[p] = "idle"
         /\ \E i \in 1..Len(req[p]) : Malformed(req[p][i]))
        => (status[p] = 400 /\ resp[p] = <<>>)

\* C12 as amended: such a request is failed and returns no payloads; the
\* loop stops no later than the first such payload, and the failure is the
\* missing-key client error exactly when the loop stopped at such a payload
\* (an earlier payload that fails ends the request with its own error).
C12_MissingKeyFailsWhenReached ==
    \A p \in Procs :
        (/\ op[p] = "decode" /\ pc[p] = "idle"
         /\ \E i \in 1..Len(req[p]) : Malformed(req[p][i]))
        => /\ status[p] \in {400, 500}
           /\ resp[p] = <<>>
           /\ idx[p] \in 1..Len(req[p])
           /\ \A i \in 1..(idx[p] - 1) : ~Malformed(req[p][i])
           /\ status[p] = 400 <=> Malformed(req[p][idx[p]])

\* C12 witness: the second payload of a batch lacks its key; the first had
\* been decrypted, and the request was failed with 400 and no payloads.
C12_Witness ==
    \E p \in Procs :
        /\ op[p] = "decode" /\ pc[p] = "idle"
        /\ Len(req[p]) = 2 /\ idx[p] = 2
        /\ MetaGet(req[p][1].Metadata, "encoding") = "binary/encrypted"
        /\ Malformed(req[p][2])
        /\ status[p] = 400 /\ resp[p] = <<>>

\* The payload is encrypted.
IsEncrypted(payload) == MetaGet(payload.Metadata, "encoding") = "binary/encrypted"

\* An encrypted payload no key resolution or decryption can succeed on: its
\* blob is not one KMS unwraps, or its data does not open under its key.
Undecodable(payload) ==
    /\ IsEncrypted(payload)
    /\ payload.EncryptedDataKey # <<>>
    /\ \/ ~B64Valid(payload.EncryptedDataKey)
       \/ ~KMSKnows(B64Decode(payload.EncryptedDataKey), payload.KMSKeyID)
       \/ DecryptWithDataKey(payload.Data, PlaintextOf(payload.EncryptedDataKey)).err # ""

\* C13: an answered request on which a KMS call failed, or which held a
\* payload that cannot be decrypted, was failed as a whole; a failed request
\* returns no payloads; and a 200 response holds the result of every payload
\* that went through key resolution and encryption or decryption.
C13_FailuresFailTheRequest ==
    \A p \in Procs :
        (pc[p] = "idle" /\ op[p] \in {"encode", "decode"})
        => /\ status[p] \in {200, 400, 500}
           /\ status[p] # 200 => resp[p] = <<>>
           /\ kmsErr[p] => status[p] = 500
           /\ (op[p] = "decode" /\ \E i \in 1..Len(req[p]) : Undecodable(req[p][i]))
              => status[p] # 200
           /\ (op[p] = "decode" /\ status[p] = 200)
              => /\ Len(resp[p]) = Len(req[p])
                 /\ \A i \in 1..Len(req[p]) :
                      IF IsEncrypted(req[p][i])
                      THEN resp[p][i] = DecodedPayload(SealedData(req[p][i]))
                      ELSE resp[p][i] = req[p][i]
           /\ (op[p] = "encode" /\ status[p] = 200)
              => /\ Len(resp[p]) = Cardinality({i \in 1..Len(req[p]) : ShouldEncrypt(req[p][i])})
                 /\ \A j \in 1..Len(resp[p]) : IsEncrypted(resp[p][j])

\* C13 witness: the first payload of a decode batch was decrypted, the data
\* of the second failed to open, and the request was failed with no payloads.
C13_Witness ==
    \E p \in Procs :
        /\ op[p] = "decode" /\ pc[p] = "idle" /\ ~kmsErr[p]
        /\ Len(req[p]) = 2 /\ idx[p] = 2
        /\ IsEncrypted(req[p][1]) /\ ~Undecodable(req[p][1])
        /\ Undecodable(req[p][2]) /\ B64Valid(req[p][2].EncryptedDataKey)
        /\ status[p] = 500 /\ resp[p] = <<>>

\* The key bytes a symbolic ciphertext is locked under.
SealedKey(payload) ==
    SubSeq(B64Decode(payload.Data), NonceSize + 1, NonceSize + KeyLen)

\* C14: in an answered encode request every candidate input payload has its
\* response payload, with encoding binary/encrypted, the manager's master
\* key id, algorithm AES-256-GCM, and as encrypted_data_key the blob of the
\* data key its data was encrypted with.
C14_EncodedPayloadNamesItsKey ==
    \A p \in Procs :
        (op[p] = "encode" /\ pc[p] = "idle" /\ status[p] = 200)
        => /\ Len(resp[p]) = Cardinality({i \in 1..Len(req[p]) : ShouldEncrypt(req[p][i])})
           /\ \A j \in 1..Len(resp[p]) :
                /\ IsEncrypted(resp[p][j])
                /\ resp[p][j].KMSKeyID = keyID /\ keyID # <<>>
                /\ resp[p][j].Algorithm = "AES-256-GCM"
                /\ B64Valid(resp[p][j].EncryptedDataKey)
                /\ KMSKnows(B64Decode(resp[p][j].EncryptedDataKey), keyID)
                /\ SealedKey(resp[p][j]) = PlaintextOf(resp[p][j].EncryptedDataKey)

\* C15: the step of a decode request that handles a payload whose encoding
\* is not binary/encrypted appends that payload as it is and moves on,
\* issues no KMS call and leaves the current key, the cache and the key
\* buffers as they were; and a 200 response holds every such payload
\* unchanged, at its place.
C15_PlainPassedThroughOnDecode ==
    [][\A p \in Procs :
         /\ (/\ op[p] = "decode" /\ pc[p] = "dec_loop" /\ idx[p] <= Len(req[p])
             /\ ~IsEncrypted(req[p][idx[p]])
             /\ <<pc[p], idx[p], resp[p], status[p]>>' # <<pc[p], idx[p], resp[p], status[p]>>)
            => /\ resp'[p] = Append(resp[p], req[p][idx[p]])
               /\ idx'[p] = idx[p] + 1 /\ pc'[p] = "dec_loop"
               /\ nDec'[p] = nDec[p] /\ nGen'[p] = nGen[p]
               /\ currentDataKey' = currentDataKey
               /\ decryptionCache' = decryptionCache
               /\ mem' = mem /\ mux' = mux
         /\ (op'[p] = "decode" /\ pc'[p] = "idle" /\ status'[p] = 200)
            => /\ Len(resp'[p]) = Len(req'[p])
               /\ \A i \in 1..Len(req'[p]) :
                    ~IsEncrypted(req'[p][i]) => resp'[p][i] = req'[p][i]]_vars

\* C15 witness: a decode batch of a plain payload and an encrypted one was
\* answered 200 with the plain payload unchanged in first place.
C15_Witness ==
    \E p \in Procs :
        /\ op[p] = "decode" /\ pc[p] = "idle" /\ status[p] = 200
        /\ Len(req[p]) = 2 /\ Len(resp[p]) = 2
        /\ ~IsEncrypted(req[p][1]) /\ IsEncrypted(req[p][2])
        /\ resp[p][1] = req[p][1]

\* The encrypted payloads of p's request the loop has come to so far.
EncryptedSoFar(p) ==
    {i \in 1..Len(req[p]) : i <= idx[p] /\ IsEncrypted(req[p][i])}

C17_OneRotationPerEncode ==
    \A p \in Procs : op[p] = "encode" => nGen[p] <= 1

\* The goroutines inside the rotation body.
Rotating == {p \in Procs : pc[p] \in RotationBody}

\* C18: at most one goroutine is inside the rotation body (the
\* GenerateDataKey call, the zeroing of the old key, the installation of
\* the new one), and it holds the write lock, whether it came in by
\* GetCurrentDataKey or by rotateDataKey.
C18_RotationSerialized ==
    /\ Cardinality(Rotating) <= 1
    /\ \A p \in Rotating : mux = p
    /\ mux # 0 => mux \in Rotating

\* C18 witness: rotateDataKey is inside the rotation body while a
\* GetCurrentDataKey caller that found the key expired waits for the lock.
C18_Witness ==
    \E p, q \in Procs :
        /\ pc[p] \in RotationBody /\ op[p] = "rotate"
        /\ pc[q] = "get_lock" /\ op[q] = "encode"

\* C19: a run of CleanupCache removes exactly the entries whose expiry is
\* before now and zeroes their buffers, leaves every other entry as it was,
\* buffer and expiry; and once it has run at a clock value, no entry whose
\* expiry is before that value is in the cache.
C19_SweepRemovesExpiredOnly ==
    [][/\ (swept' /\ UNCHANGED <<now, pc, reqVars, locVars>>)
          => LET gone == {k \in DOMAIN decryptionCache :
                             Before(decryptionCache[k].ExpiresAt, now)}
                 kept == DOMAIN decryptionCache \ gone
             IN /\ DOMAIN decryptionCache' = kept
                /\ \A k \in gone : mem'[decryptionCache[k].Key] = Zeros
                /\ \A k \in kept :
                     /\ decryptionCache'[k] = decryptionCache[k]
                     /\ mem'[decryptionCache[k].Key] = mem[decryptionCache[k].Key]
       /\ swept'
          => \A k \in DOMAIN decryptionCache' :
                ~Before(decryptionCache'[k].ExpiresAt, now')]_vars

\* C19 witness: CleanupCache has run after the blobs of data keys 1 and 2
\* had both been stored; the entry past its expiry is gone and its buffer
\* is zero (three zero buffers, two of them of the superseded keys), the
\* other entry is still there with its plaintext.
C19_Witness ==
    /\ swept
    /\ kmsKeys = 3 /\ Len(mem) = 5
    /\ DOMAIN decryptionCache = {B64Encode(Blob(2))}
    /\ ~Before(decryptionCache[B64Encode(Blob(2))].ExpiresAt, now)
    /\ mem[decryptionCache[B64Encode(Blob(2))].Key] = Plain(2)
    /\ Cardinality({b \in 1..Len(mem) : mem[b] = Zeros}) = 3

\* C20: with a key of the AES-256 length, EncryptWithDataKey succeeds and
\* DecryptWithDataKey of its output under the same key succeeds and returns
\* the bytes that were encrypted; with a key of any other length both fail
\* with the key-length error.
C20_RoundTripAndKeyLength ==
    \A p \in Procs :
        (op[p] = "crypt" /\ pc[p] = "crypt_done")
        => IF Len(mem[dataKey[p]]) = KeyLen
           THEN /\ resp[p][1].err = ""
                /\ resp[p][2].err = ""
                /\ resp[p][2].val = req[p][1]
           ELSE /\ resp[p][1].err = "key must be 32 bytes"
                /\ resp[p][2].err = "key must be 32 bytes"

\* C20 witness: a plaintext of two bytes has gone through both functions
\* under a key of the right length and come back.
C20_Witness ==
    \E p \in Procs :
        /\ op[p] = "crypt" /\ pc[p] = "crypt_done"
        /\ Len(mem[dataKey[p]]) = KeyLen /\ Len(req[p][1]) = 2
        /\ resp[p][2] = [err |-> "", val |-> req[p][1]]

\* C21: a DecryptDataKey lookup that finds the blob's entry stored but past
\* its TTL does not return it, and the entry is gone from the cache when
\* the lookup is over.
C21_ExpiredEntryRemovedOnLookup ==
    [][\A p \in Procs :
         (/\ pc[p] = "dec_cache" /\ pc'[p] # "dec_cache"
          /\ StoredStale(EncKeyArg(p)))
         => /\ pc'[p] # "dec_data"
            /\ EncKeyArg(p) \notin DOMAIN decryptionCache']_vars

\* C22: a decode request that stopped at an encrypted payload whose key was
\* resolved with no KMS failure and whose data is not base64 was answered
\* with a client error (4xx), not with the server error of key management.
C22_BadBase64IsClientError ==
    \A p \in Procs :
        (/\ op[p] = "decode" /\ pc[p] = "idle" /\ ~kmsErr[p]
         /\ idx[p] \in 1..Len(req[p])
         /\ IsEncrypted(req[p][idx[p]])
         /\ B64Valid(req[p][idx[p]].EncryptedDataKey)
         /\ req[p][idx[p]].EncryptedDataKey # <<>>
         /\ ~B64Valid(req[p][idx[p]].Data))
        => status[p] \in 400..499

\* The steps of GetCurrentDataKey from the wait for the write lock on.
InGetLocked == {"get_lock"} \cup RotationBody

\* C23: a request abandoned by its client goes on as if it had not been:
\* the step at which the client goes away changes nothing of the manager
\* or of the handler; an abandoned caller that waits for the write lock or
\* is inside the rotation body comes out of GetCurrentDataKey; and when it
\* leaves the rotation body the lock is free and either GenerateDataKey
\* had failed or the key it installed is the current one, unexpired and
\* whole.
C23_AbandonedRotationCompletes ==
    /\ [][\A p \in Procs :
            /\ (abandoned'[p] /\ ~abandoned[p])
               => UNCHANGED <<now, mgrVars, pc, reqVars, locVars, cntVars>>
            /\ (abandoned[p] /\ pc[p] \in RotationBody /\ pc'[p] \notin RotationBody)
               => /\ mux' = 0
                  /\ \/ (pc[p] = "gen_call" /\ kmsErr'[p] /\ currentDataKey' = currentDataKey)
                     \/ /\ pc[p] = "gen_install"
                        /\ currentDataKey'.EncryptedKey = B64Encode(result[p].CiphertextBlob)
                        /\ ~After(now', currentDataKey'.ExpiresAt)
                        /\ mem'[currentDataKey'.PlaintextKey]
                             = PlaintextOf(currentDataKey'.EncryptedKey)]_vars
    /\ \A p \in Procs :
         (abandoned[p] /\ pc[p] \in InGetLocked) ~> (pc[p] \notin InGetLocked)

\* C23 witness: an abandoned encode request rotated the expired key; the
\* key it installed is current and unexpired, the lock is free, and the
\* other caller has obtained that key without a KMS call.
C23_Witness ==
    \E p, q \in Procs :
        /\ p # q
        /\ abandoned[p] /\ op[p] = "encode" /\ nGen[p] = 1 /\ ~kmsErr[p]
        /\ pc[p] = "idle" /\ status[p] = 200
        /\ currentDataKey.EncryptedKey = resp[p][1].EncryptedDataKey
        /\ ~After(now, currentDataKey.ExpiresAt)
        /\ mux = 0
        /\ ~abandoned[q] /\ pc[q] = "enc_encrypt" /\ nGen[q] = 0
        /\ saw[q] # <<>>
        /\ currentKey[q] = currentDataKey

\* C24: the current key is never nil; it is replaced only by the installing
\* step of a request goroutine that holds the write lock, never by the
\* clock or a background routine, and then an expired key gives way to
\* another key that is unexpired; and a key that stays goes from unexpired
\* to expired only, and only as the clock advances.
C24_KeyStateMachine ==
    [][/\ ~IsNil(currentDataKey) /\ ~IsNil(currentDataKey')
       /\ currentDataKey' # currentDataKey
          => /\ \E p \in Procs :
                  /\ pc[p] = "gen_install" /\ pc'[p] # "gen_install"
                  /\ op[p] \in {"encode", "rotate"}
                  /\ mux = p
             /\ After(now, currentDataKey.ExpiresAt)
             /\ ~After(now', currentDataKey'.ExpiresAt)
             /\ currentDataKey'.EncryptedKey # currentDataKey.EncryptedKey
             /\ UNCHANGED <<now, swept, monitor>>
       /\ (/\ currentDataKey' = currentDataKey
           /\ After(now', currentDataKey.ExpiresAt) # After(now, currentDataKey.ExpiresAt))
          => /\ now' > now
             /\ ~After(now, currentDataKey.ExpiresAt)
             /\ UNCHANGED pc]_vars

\* C24 witness: the second data key, installed by a request after the first
\* had expired, has expired in its turn.
C24_Witness ==
    /\ currentDataKey.EncryptedKey = B64Encode(Blob(2))
    /\ currentDataKey.GeneratedAt > keyRotationInterval
    /\ After(now, currentDataKey.ExpiresAt)
    /\ mem[1] = Zeros
    /\ swept

\* C25: a GetCurrentDataKey call that reads a current key whose expiry the
\* clock has not passed returns that key at once: no KMS call, no lock
\* taken, and the current key, the cache and the key buffers as they were.
C25_UnexpiredKeyReturned ==
    [][\A p \in Procs :
         (/\ pc[p] = "get_read" /\ pc'[p] # "get_read"
          /\ ~IsNil(currentDataKey)
          /\ ~After(now, currentDataKey.ExpiresAt))
         => /\ pc'[p] = "enc_encrypt"
            /\ currentKey'[p] = currentDataKey
            /\ nGen' = nGen /\ nDec' = nDec
            /\ UNCHANGED <<currentDataKey, decryptionCache, mem, kmsKeys, mux>>]_vars

\* C25 witness: at the very instant of the key's expiry a caller holds the
\* current key, obtained with no KMS call, while the cache is not empty.
C25_Witness ==
    \E p \in Procs :
        /\ pc[p] = "enc_encrypt" /\ nGen[p] = 0 /\ saw[p] = <<>>
        /\ currentKey[p] = currentDataKey
        /\ now = currentDataKey.ExpiresAt
        /\ DOMAIN decryptionCache # {}

\* C26: a DecryptDataKey call that has come to the KMS path fails when the
\* blob is not base64, before any Decrypt call is issued, and when the
\* Decrypt call errors; the request is then answered with the server error
\* of key decryption and no payloads, and the cache, the current key and
\* the key buffers are as they were.
C26_KeyDecryptionFailure ==
    [][\A p \in Procs :
         /\ (pc[p] = "dec_kms" /\ pc'[p] # "dec_kms" /\ ~B64Valid(EncKeyArg(p)))
            => /\ pc'[p] = "idle" /\ status'[p] = 500 /\ resp'[p] = <<>>
               /\ nDec'[p] = nDec[p] /\ ~kmsErr'[p]
               /\ UNCHANGED <<currentDataKey, decryptionCache, mem, mux>>
         /\ (pc[p] = "dec_kms" /\ pc'[p] # "dec_kms" /\ B64Valid(EncKeyArg(p)))
            => (pc'[p] = "dec_call" /\ nDec'[p] = nDec[p] + 1)
         /\ (pc[p] = "dec_call" /\ pc'[p] # "dec_call" /\ kmsErr'[p])
            => /\ pc'[p] = "idle" /\ status'[p] = 500 /\ resp'[p] = <<>>
               /\ UNCHANGED <<currentDataKey, decryptionCache, mem, mux>>
         /\ (pc[p] = "dec_call" /\ pc'[p] = "idle") => kmsErr'[p]]_vars

\* C26 witness: a decode request whose second payload carries a blob that
\* is not base64 was failed with no Decrypt call for it, after the first
\* payload had left its key in the cache, which still holds just that.
C26_Witness ==
    \E p \in Procs :
        /\ op[p] = "decode" /\ pc[p] = "idle" /\ status[p] = 500 /\ ~kmsErr[p]
        /\ Len(req[p]) = 2 /\ idx[p] = 2
        /\ ~B64Valid(req[p][2].EncryptedDataKey)
        /\ nDec[p] = 1
        /\ DOMAIN decryptionCache = {req[p][1].EncryptedDataKey}

\* C27: a tick of the monitoring routine issues no KMS call and leaves the
\* clock, the current key, the cache, the key buffers, the lock and every
\* request as they were, whether the key is fresh, within the warning
\* threshold or past its expiry; all it does is warn, exactly when the key
\* is within the threshold or expired.
C27_MonitorIsAdvisory ==
    [][(monitor' # "none" /\ monitor' # monitor)
       => /\ UNCHANGED <<now, currentDataKey, decryptionCache, mem, kmsKeys, mux>>
          /\ UNCHANGED <<pc, reqVars, locVars, nGen, nDec, kmsErr>>
          /\ monitor' = "warned" <=> currentDataKey.ExpiresAt - now < WarnBefore]_vars

\* C27 witness: the monitoring routine has warned about a current key that
\* is past its expiry; the key is still the current one, whole, and the
\* cache still holds an entry.
C27_Witness ==
    /\ monitor = "warned"
    /\ After(now, currentDataKey.ExpiresAt)
    /\ mem[currentDataKey.PlaintextKey] = PlaintextOf(currentDataKey.EncryptedKey)
    /\ DOMAIN decryptionCache # {}
    /\ mux = 0

\* C28: a decode request made by the worker's client from what its Encode
\* returned carries, on every encrypted payload, the master key id and the
\* encrypted data key the server had attached, and with no KMS failure it
\* is answered 200 with the bytes that were encrypted.
C28_KeyMetadataSurvivesClient ==
    \A p \in Procs :
        (op[p] = "decode" /\ fromEnc[p])
        => /\ \A i \in 1..Len(req[p]) :
                IsEncrypted(req[p][i])
                => /\ req[p][i].KMSKeyID = keyID
                   /\ req[p][i].EncryptedDataKey # <<>>
                   /\ req[p][i].Algorithm = "AES-256-GCM"
           /\ (pc[p] = "idle" /\ ~kmsErr[p])
              => /\ status[p] = 200
                 /\ ClientResult(resp[p]) = <<TemporalPlain>>

\* C29: whenever a decode request is about to decrypt, the buffer that
\* DecryptDataKey returned to it still holds the plaintext its blob
\* unwraps to.
C29_DecodeKeyStaysWhole ==
    \A p \in Procs :
        pc[p] = "dec_data" => mem[dataKey[p]] = PlaintextOf(EncKeyArg(p))

\* C30: every DecryptDataKey call that comes back from KMS returns a buffer
\* holding the plaintext its blob unwraps to and leaves the blob's entry in
\* the cache with that plaintext, whatever other calls for the same blob do
\* meanwhile; and the cache is keyed by the blobs themselves, one entry to
\* a blob, each entry holding its blob's plaintext.
C30_ConcurrentDecryptsAgree ==
    [][/\ \A p \in Procs :
            (pc[p] = "dec_insert" /\ pc'[p] # "dec_insert")
            => /\ pc'[p] = "dec_data"
               /\ mem'[dataKey'[p]] = PlaintextOf(EncKeyArg(p))
               /\ EncKeyArg(p) \in DOMAIN decryptionCache'
       /\ \A k \in DOMAIN decryptionCache' :
            /\ B64Valid(k)
            /\ KMSKnows(B64Decode(k), keyID)
            /\ mem'[decryptionCache'[k].Key] = PlaintextOf(k)]_vars

\* C30 witness: two calls for the same non-current blob, both begun before
\* either had stored anything, have each made their own Decrypt call and
\* returned their own buffer; both buffers hold the blob's plaintext and
\* the one entry of the cache is the later one's.
C30_Witness ==
    \E p, q \in Procs :
        /\ p # q
        /\ pc[p] = "dec_data" /\ pc[q] = "dec_data"
        /\ EncKeyArg(p) = EncKeyArg(q)
        /\ ~IsCurrentKey(EncKeyArg(p))
        /\ nDec[p] = 1 /\ nDec[q] = 1
        /\ ~hadEntry[p] /\ ~hadEntry[q] /\ ~stale[p] /\ ~stale[q]
        /\ dataKey[p] # dataKey[q]
        /\ mem[dataKey[p]] = PlaintextOf(EncKeyArg(p))
        /\ mem[dataKey[q]] = PlaintextOf(EncKeyArg(q))
        /\ DOMAIN decryptionCache = {EncKeyArg(p)}
        /\ decryptionCache[EncKeyArg(p)].Key = dataKey[q]

\* C31: the mutex is held across steps only by the goroutine inside the
\* rotation body, every step by which that goroutine leaves the body
\* (failed GenerateDataKey, installed key) gives the mutex back, every
\* other user (optimistic read, double check that finds a fresh key,
\* current-key and cache lookups, cache insert, sweep, stats, monitor
\* tick) has given it back when its step ends; so the mutex is free again
\* and again (every holder releases it, the sweep and the monitoring
\* routine get their turn) and no goroutine stays in front of RLock or
\* Lock forever.
C31_MutexAlwaysReleased ==
    /\ [](mux # 0 => pc[mux] \in RotationBody)
    /\ [][\A p \in Procs :
            /\ (mux = p /\ pc'[p] \notin RotationBody) => mux' = 0
            /\ (mux # p /\ pc'[p] \notin RotationBody) => mux' # p]_vars
    /\ []<>(mux = 0)
    /\ \A p \in Procs : (pc[p] \in AtLock) ~> (pc[p] \notin AtLock)

\* C31 witness: a goroutine holds the mutex with its GenerateDataKey call
\* in flight while another stands at the Lock of the cache insert.
C31_Witness ==
    \E p, q \in Procs :
        /\ mux = p /\ pc[p] = "gen_call"
        /\ pc[q] = "dec_insert"

\* Where a goroutine stands inside DecryptDataKey.
InDecryptDataKey == {"dec_cur", "dec_cache", "dec_kms", "dec_call", "dec_insert"}

\* The current data key is as it was: the same record, the same bytes.
CurrentKeyUntouched ==
    /\ currentDataKey' = currentDataKey
    /\ mem'[currentDataKey.PlaintextKey] = mem[currentDataKey.PlaintextKey]

\* The decryption cache is as it was: the same entries, the same bytes.
CacheUntouched ==
    /\ decryptionCache' = decryptionCache
    /\ \A k \in DOMAIN decryptionCache :
           mem'[decryptionCache[k].Key] = mem[decryptionCache[k].Key]

\* C32: every step of a rotation (the Lock and double check, the answer of
\* GenerateDataKey, good or bad, the zeroing, the installation) leaves the
\* decryption cache as it was, entries and key bytes, and the key it
\* supersedes is not in the cache afterwards unless it was before; every
\* sweep and every step of DecryptDataKey leaves the current data key as
\* it was, record and key bytes.
C32_DisjointResources ==
    [][/\ \A p \in Procs :
              (pc[p] \in InGetLocked /\ <<pc[p], zi[p]>>' # <<pc[p], zi[p]>>) =>
                  /\ CacheUntouched
                  /\ StoreKey(currentDataKey.EncryptedKey, keyID) \in DOMAIN decryptionCache'
                         => StoreKey(currentDataKey.EncryptedKey, keyID) \in DOMAIN decryptionCache
       /\ (~swept /\ swept') => CurrentKeyUntouched
       /\ \A p \in Procs :
              (pc[p] \in InDecryptDataKey /\ pc'[p] # pc[p]) => CurrentKeyUntouched]_vars

\* C32 witness: a rotation has wiped the key it supersedes and is about to
\* install the new one while the cache holds an entry, the sweep having
\* run at this clock value.
C32_Witness ==
    \E p \in Procs :
        /\ pc[p] = "gen_install"
        /\ DOMAIN decryptionCache # {}
        /\ swept

\* C33: a decode request answered 200 returns as many payloads as it was
\* given, and at each position either the given payload itself, when its
\* encoding is not binary/encrypted, or a payload with the single metadata
\* entry encoding = json/plain, no master key id, no encrypted data key, no
\* algorithm, and as data the base64 of what the given payload's data opens
\* to under the key it was sealed with.
C33_DecodeResponseInOrder ==
    \A p \in Procs :
        (op[p] = "decode" /\ pc[p] = "idle" /\ status[p] = 200)
        => /\ Len(resp[p]) = Len(req[p])
           /\ \A i \in 1..Len(req[p]) :
                LET given == req[p][i]
                    got == resp[p][i]
                IN IF MetaGet(given.Metadata, "encoding") # "binary/encrypted"
                   THEN got = given
                   ELSE /\ LET r == DecryptWithDataKey(given.Data, SealedKey(given))
                           IN r.err = "" /\ got.Data = B64Encode(r.val)
                        /\ got.Metadata = Encoding("json/plain")
                        /\ got.KMSKeyID = <<>>
                        /\ got.EncryptedDataKey = <<>>
                        /\ got.Algorithm = ""

\* C33 witness: a batch of an encrypted payload followed by a payload of
\* another encoding was answered 200, the decrypted payload in first place
\* and the other one, with a different content, in second place.
C33_Witness ==
    \E p \in Procs :
        /\ op[p] = "decode" /\ pc[p] = "idle" /\ status[p] = 200
        /\ req[p] = <<EncryptedOther, OtherEncoding>>
        /\ resp[p][1] # resp[p][2]

====
